---- MODULE Spec2Model ----
(***************************************************************************)
(* Rainbow-option amplitude estimation (src/unnamed/part_000): the two     *)
(* Qmod models (brute-force payoff, lines 1-63; direct payoff, lines       *)
(* 65-158) followed along one computational-basis branch of the state      *)
(* preparation, the Grover amplification of the prepared state, and the    *)
(* iterative amplitude estimation the classical scope asks for; then the   *)
(* Grover search and hello-many-worlds models (built_in_apps/grover),      *)
(* my_qpe_flexible, suzuki_trotter_with_power_logic and the swap-test main *)
(* (tutorials/high_level_modeling_flexible_qpe), and                       *)
(* exponential_amplitude_loading statement by statement.                   *)
(*                                                                         *)
(* Numbers.  Register contents are exact: a register is (raw, size,        *)
(* fraction_digits) and holds raw / 2^fraction_digits.  Real quantities    *)
(* (amplitudes, exponentials) are fixed-point integers in units of         *)
(* 1/SCALE, computed with truncating integer arithmetic, so every          *)
(* comparison of two reals is made up to the tolerance named in it.        *)
(***************************************************************************)
EXTENDS Integers, Naturals, Sequences, FiniteSets, TLC

VARIABLES
  model,     \* which of the two Qmod models runs: "brute_force" | "direct"
  k,         \* main's parameter k (number of Grover repetitions)
  pc,        \* position inside main / the state-preparation operand
  x1, x2,    \* basis values of x[0:2], x[2:4] on the branch followed
  max_out,   \* the local qnum max_out (NoReg while not allocated)
  geq_reg,   \* the local qbit geq_reg of direct_payoff (-1 while not allocated)
  ind,       \* amplitude of |1> on the indicator x[x.len-1] on this branch
  applied,   \* the operands grover_algorithm has applied so far, in order
  blocks,    \* the controlled blocks of direct_load_amplitudes that acted, in order
  reps,      \* grover_operator applications done by the power block
  prepared,  \* the state sp_operand prepares, as (good, bad) amplitudes
  good, bad, \* amplitudes of the normalised good / bad components of full_reg
  status,    \* the estimation controller's state: "Created" before setup, then
             \* "Init", "GrowDepth", "Refine", "Terminated", or, with an error,
             \* "Rejected", "Aborted", "Failed"
  params,    \* the arguments (epsilon, alpha) the run was set up with
  sampled,   \* the hits the Sampler returned last (-1 before the first call)
  depth,     \* the current amplification depth k_i
  low, high, \* the running confidence interval [L_i, U_i], in units of 1/SCALE
  firstRound,\* TRUE until the first round is recorded
  rounds,    \* the log of AmplificationRound records (depth, shots, hits)
  error,     \* the error the run ended with ("" while there is none)
  program,   \* the notebook model that runs: "grover" | "hello" ("" for none)
  npc,       \* position inside the notebook model and the cells after it
  amps,      \* the register state: basis state -> amplitude, in a common unit
  iters,     \* grover_operator repetitions done by grover_search
  outcome,   \* the measured basis state (NoOutcome before the measurement)
  verdict,   \* what classical_predicate printed for the outcome ("" before)
  phase_len, \* my_qpe_flexible: phase.len
  qpc,       \* position inside my_qpe_flexible
  qpe_index, \* the index of the repeat block
  u_inner,   \* calls of U made so far for the current power
  u_calls,   \* calls of U made so far in all
  pw_arg,    \* suzuki_trotter_with_power_logic: the argument pw
  repetitions, \* the repetitions passed to suzuki_trotter (-1 before the call)
  qcalls,    \* main: the arguments of its my_qpe_flexible calls, in program order
  qcall,     \* main: the my_qpe_flexible call being executed (0: none)
  qlog,      \* the operations applied so far, with the registers they act on
  lpc,       \* exponential_amplitude_loading: the statement to execute next
  lx,        \* the basis value of x
  lx0,       \* the basis value of x at the call
  laux,      \* the basis value of aux on this branch
  laux0,     \* the basis value of aux at the call
  lres,      \* the basis value of res
  lres0,     \* the basis value of res at the call
  lidx,      \* the index of the repeat
  lrot,      \* the indices whose RY has acted
  lweight    \* the probability of this branch of aux, in 1/SCALE

progvars == <<model, k, pc, x1, x2, max_out, geq_reg, ind, applied, blocks, reps, prepared, good, bad>>

estvars == <<status, params, sampled, depth, low, high, firstRound, rounds, error>>

nbvars == <<program, npc, amps, iters, outcome, verdict>>

qpevars == <<phase_len, qpc, qpe_index, u_inner, u_calls, pw_arg, repetitions,
             qcalls, qcall, qlog>>

loadvars == <<lpc, lx, lx0, laux, laux0, lres, lres0, lidx, lrot, lweight>>

vars == <<progvars, estvars, nbvars, qpevars, loadvars>>

----------------------------------------------------------------------------
(* Bounds of the model. *)

\* largest k main is run with
MaxK == 3

----------------------------------------------------------------------------
(* Real arithmetic in units of 1/SCALE. *)

SCALE == 10 ^ 4

Abs(a) == IF a < 0 THEN -a ELSE a

Max2(a, b) == IF a >= b THEN a ELSE b

Min2(a, b) == IF a <= b THEN a ELSE b

Pow2(n) == 2 ^ n

\* a * b for two reals in units of 1/SCALE
RMul(a, b) == (a * b) \div SCALE

\* a / b for two reals in units of 1/SCALE (a up to 2^31 / 1000, b >= 10)
RDiv(a, b) == (a * 1000) \div (b \div 10)

\* floor of the square root of a natural number, by bisection on [lo, hi)
RECURSIVE ISqrtIn(_, _, _)
ISqrtIn(n, lo, hi) ==
  IF hi - lo <= 1 THEN lo
  ELSE LET mid == (lo + hi) \div 2
       IN IF mid * mid <= n THEN ISqrtIn(n, mid, hi) ELSE ISqrtIn(n, lo, mid)

ISqrt(n) == ISqrtIn(n, 0, 46341)

\* sqrt of a real in units of 1/SCALE, result in units of 1/SCALE
RSqrt(a) ==
  IF a < 200000 THEN ISqrt(a * SCALE)
  ELSE ISqrt(a * 100) * 10

\* the Taylor series of exp at x (|x| < 4), summed until the term vanishes
RECURSIVE ExpTerms(_, _, _, _)
ExpTerms(x, term, n, acc) ==
  IF term = 0 \/ n > 40 THEN acc
  ELSE LET next == (term * x) \div (n * SCALE)
       IN ExpTerms(x, next, n + 1, acc + next)

RExp(x) == ExpTerms(x, SCALE, 1, SCALE)

----------------------------------------------------------------------------
(* Registers: exact fixed-point numbers. *)

NoReg == [raw |-> 0, size |-> 0, fraction_digits |-> 0]

\* no measurement yet
NoOutcome == [none |-> TRUE]

\* number of bits needed for the natural number n
RECURSIVE BitLen(_)
BitLen(n) == IF n = 0 THEN 0 ELSE 1 + BitLen(n \div 2)

\* an exact fixed-point number raw / 2^frac
Fx(raw, frac) == [raw |-> raw, frac |-> frac]

\* raw of a at f >= a.frac fraction digits
AlignTo(a, f) == a.raw * Pow2(f - a.frac)

FxMul(a, b) == Fx(a.raw * b.raw, a.frac + b.frac)

FxAdd(a, b) ==
  LET f == Max2(a.frac, b.frac)
  IN Fx(AlignTo(a, f) + AlignTo(b, f), f)

\* max(a, b) with the operands cut to the fewer fraction digits of the two
FxMaxTruncating(a, b) ==
  LET f == Min2(a.frac, b.frac)
      ra == a.raw \div Pow2(a.frac - f)
      rb == b.raw \div Pow2(b.frac - f)
  IN IF ra >= rb THEN Fx(ra, f) ELSE Fx(rb, f)

\* max(a, b): the first argument when the two are equal
FxMax(a, b) ==
  LET f == Max2(a.frac, b.frac)
  IN IF AlignTo(a, f) >= AlignTo(b, f) THEN Fx(AlignTo(a, f), f)
     ELSE Fx(AlignTo(b, f), f)

----------------------------------------------------------------------------
(* Program constants. *)

Models == {"brute_force", "direct"}

\* width of x[0:2] and of x[2:4]
NUM_QUBITS == 2

\* a table whose entries sum to 1.0001
ProbabilitiesUnnormalised == <<656, 4344, 4344, 657>>

\* the table of inplace_prepare_state: 0.0656, 0.4344, 0.4344, 0.0656
Probabilities == <<656, 4344, 4344, 656>>

\* 193.97, in units of 1/100
S0 == 19397

\* 0.4341, in units of 1/SCALE
RATE == 4341

\* -0.7408, in units of 1/SCALE
SHIFT == -7408

\* 190
FLOOR == 190

\* 13.784, in units of 1/1000
OTM_NUMERATOR == 13784

\* 1.5 as the fraction STRIKE_NUM / STRIKE_DEN
STRIKE_NUM == 3

STRIKE_DEN == 2

\* the real value of an integer, in units of 1/SCALE
RInt(n) == n * SCALE

----------------------------------------------------------------------------
(* affine_max: res = max(x1 * 1.0, ((x1 * a) + (x2 * a)) + b). *)

\* the coefficient a: 0.5 (1/2) in the brute-force model, 0.75 (3/4) in the direct one
AffineCoefficient(m) == IF m = "brute_force" THEN Fx(1, 1) ELSE Fx(3, 2)

\* the offset b: -1.5 (-3/2) in the brute-force model, -1.25 (-5/4) in the direct one
AffineOffset(m) == IF m = "brute_force" THEN Fx(-3, 1) ELSE Fx(-5, 2)

\* the value of the expression for unsigned integers a, b
AffineMaxValue(m, a, b) ==
  FxMax(FxMul(Fx(a, 0), Fx(1, 0)),
        FxAdd(FxAdd(FxMul(Fx(a, 0), AffineCoefficient(m)),
                    FxMul(Fx(b, 0), AffineCoefficient(m))),
              AffineOffset(m)))

\* the output register: the expression's fraction digits, and the bits its
\* largest value (at x1 = x2 = 2^NUM_QUBITS - 1) needs
affine_max(m, a, b) ==
  LET v  == AffineMaxValue(m, a, b)
      hi == AffineMaxValue(m, Pow2(NUM_QUBITS) - 1, Pow2(NUM_QUBITS) - 1)
  IN [raw |-> v.raw, size |-> BitLen(hi.raw), fraction_digits |-> v.frac]

----------------------------------------------------------------------------
(* brute_force_payoff. *)

\* the shift added after the exponential is scaled, not inside the exponent
ClampedAssetShiftOutside(reg, fixed) ==
  Max2((S0 * RExp(RMul(RATE * Pow2(reg.size - reg.fraction_digits), fixed))) \div 100
          + SHIFT,
       RInt(FLOOR))

\* max(193.97 * exp(0.4341 * 2^(size - fraction_digits) * fixed + (-0.7408)), 190)
\* for a real `fixed` in [0, 1)
ClampedAsset(reg, fixed) ==
  Max2((S0 * RExp(RMul(RATE * Pow2(reg.size - reg.fraction_digits), fixed) + SHIFT))
          \div 100,
       RInt(FLOOR))

\* the value of max_reg_fixed: qnum<size, False, size>, the same bits read as raw / 2^size
MaxRegFixed(reg) == (reg.raw * SCALE) \div Pow2(reg.size)

\* the denominator evaluated at the smallest non-zero value 1 / 2^size
FixedMaxLowest(reg) == SCALE \div Pow2(reg.size)

\* the denominator's argument 1 - 1 / 2^size
FixedMax(reg) == SCALE - (SCALE \div Pow2(reg.size))

PayoffNumerator(reg) == RSqrt(ClampedAsset(reg, MaxRegFixed(reg)))

PayoffDenominator(reg) == RSqrt(ClampedAsset(reg, FixedMax(reg)))

\* the amplitude ind_reg *= ... loads on |1>
brute_force_payoff(reg) == RDiv(PayoffNumerator(reg), PayoffDenominator(reg))

----------------------------------------------------------------------------
(* The direct payoff: asset_geq_strike_price, exponential_amplitude_loading, *)
(* direct_load_amplitudes.                                                   *)

\* the comparison made on the register's bits, its fraction digits ignored
GeqOnRawBits(reg) == IF reg.raw * STRIKE_DEN > STRIKE_NUM THEN 1 ELSE 0

\* res = x > 1.5, on the exact register value raw / 2^fraction_digits
asset_geq_strike_price(reg) ==
  IF reg.raw * STRIKE_DEN > STRIKE_NUM * Pow2(reg.fraction_digits) THEN 1 ELSE 0

Bit(n, i) == (n \div Pow2(i)) % 2

\* the acos argument 1 / sqrt(exp(exp_rate * 2^index))
LadderCos(exp_rate, index) == RDiv(SCALE, RSqrt(RExp(exp_rate * Pow2(index))))

\* apply_to_all(X, x) then control (x[index]): the rotation acts where bit index of x is 0
LadderRotates(xraw, index) == Bit(xraw, index) = 0

\* amplitude of aux[0 .. n-1] all staying 0 after the ladder over x
RECURSIVE LadderAmplitude(_, _, _)
LadderAmplitude(exp_rate, xraw, n) ==
  IF n = 0 THEN SCALE
  ELSE RMul(LadderAmplitude(exp_rate, xraw, n - 1),
            IF LadderRotates(xraw, n - 1) THEN LadderCos(exp_rate, n - 1) ELSE SCALE)

\* control (aux_num == 0) X(res): res is flipped with the amplitude of aux = 0
exponential_amplitude_loading(exp_rate, xraw, n) == LadderAmplitude(exp_rate, xraw, n)

\* (1 / 2^fraction_digits) * 0.4341
ExpRate(reg) == RATE \div Pow2(reg.fraction_digits)

\* the asin argument normalised by the floor instead of the largest payoff
OtmArgumentAtFloor(reg) == RDiv(OTM_NUMERATOR * 10, RSqrt(RInt(FLOOR)))

\* the asin argument 13.784 / sqrt(max(193.97 * exp(...), 190))
OtmArgument(reg) == RDiv(OTM_NUMERATOR * 10, PayoffDenominator(reg))

\* RY(2 * asin(s)) on a qubit whose |1> amplitude is a (real, non-negative):
\* a * cos + sqrt(1 - a^2) * sin, with sin = s and cos = sqrt(1 - s^2)
RYAsin(a, s) ==
  RMul(a, RSqrt(SCALE - RMul(s, s))) + RMul(RSqrt(SCALE - RMul(a, a)), s)

\* control (geq_reg == 1) { exponential_amplitude_loading(...) }
LoadControl(geq) == geq = 1

\* the rotation applied without its control
OtmControlAlways(geq) == TRUE

\* control (geq_reg == 0) { RY(...) }
OtmControl(geq) == geq = 0

\* the controlled blocks that act for a value of geq_reg, in program order
DirectBlocks(geq) ==
  (IF LoadControl(geq) THEN <<"exponential_amplitude_loading">> ELSE <<>>)
    \o (IF OtmControl(geq) THEN <<"RY">> ELSE <<>>)

\* the |1> amplitude of ind_reg (initially |0>) after the two control statements
direct_load_amplitudes(geq, reg) ==
  LET loaded == IF LoadControl(geq)
                THEN exponential_amplitude_loading(ExpRate(reg), reg.raw, reg.size)
                ELSE 0
  IN IF OtmControl(geq) THEN RYAsin(loaded, OtmArgument(reg)) ELSE loaded

\* direct_payoff: within { asset_geq_strike_price } apply { direct_load_amplitudes }
direct_payoff(reg) == direct_load_amplitudes(asset_geq_strike_price(reg), reg)

----------------------------------------------------------------------------
(* The prepared state and the Grover operator, in the plane spanned by the  *)
(* normalised good (ind_reg = 1) and bad (ind_reg = 0) components.          *)

\* the |1> amplitude sp_operand leaves on ind_reg on the branch x1 = a, x2 = b
BranchAmplitude(m, a, b) ==
  IF m = "brute_force" THEN brute_force_payoff(affine_max(m, a, b))
  ELSE direct_payoff(affine_max(m, a, b))

RECURSIVE SumOver(_, _, _)
SumOver(m, S, acc) ==
  IF S = {} THEN acc
  ELSE LET e == CHOOSE e \in S : TRUE
       IN SumOver(m, S \ {e},
            acc + RMul(RMul(Probabilities[e[1] + 1], Probabilities[e[2] + 1]),
                       RMul(BranchAmplitude(m, e[1], e[2]),
                            BranchAmplitude(m, e[1], e[2]))))

\* probability of ind_reg = 1 after sp_operand
SuccessProbability(m) ==
  SumOver(m, (0 .. Pow2(NUM_QUBITS) - 1) \X (0 .. Pow2(NUM_QUBITS) - 1), 0)

\* an oracle that marks nothing
OracleIdentity(v) == [g |-> v.g, b |-> v.b]

\* qmci_oracle: Z(ind) negates the good component
qmci_oracle(v) == [g |-> -v.g, b |-> v.b]

\* the reflection about the prepared state s = (s.g, s.b): 2 <s, v> s - v
Diffuser(s, v) ==
  LET dot == RMul(s.g, v.g) + RMul(s.b, v.b)
  IN [g |-> 2 * RMul(dot, s.g) - v.g, b |-> 2 * RMul(dot, s.b) - v.b]

\* grover_operator(oracle_operand, sp_operand, x): the oracle, then the diffuser
grover_operator(s, v) == Diffuser(s, qmci_oracle(v))

\* the state sp_operand prepares
Prepared(m) ==
  [g |-> RSqrt(SuccessProbability(m)), b |-> RSqrt(SCALE - SuccessProbability(m))]

----------------------------------------------------------------------------
(* Angles, in units of 1/SCALE radian. *)

PI == 31416

HALF_PI == PI \div 2

\* the Taylor series of sin at x in [0, pi/2], summed until the term vanishes
RECURSIVE SinTerms(_, _, _, _)
SinTerms(sq, term, n, acc) ==
  IF term = 0 \/ n > 20 THEN acc
  ELSE LET next == -((term * sq) \div (2 * n * (2 * n + 1) * SCALE))
       IN SinTerms(sq, next, n + 1, acc + next)

RSin(x) == SinTerms(RMul(x, x), x, 1, x)

\* sin^2(y) for an angle y >= 0: sin^2 has period pi and is even about pi/2
SinSq(y) ==
  LET r == y % PI
      f == IF r > HALF_PI THEN PI - r ELSE r
  IN Min2(SCALE, RMul(RSin(f), RSin(f)))

\* the largest angle t in [lo, hi) with sin^2(t) <= p, by bisection
RECURSIVE ASinSqrtIn(_, _, _)
ASinSqrtIn(p, lo, hi) ==
  IF hi - lo <= 1 THEN lo
  ELSE LET mid == (lo + hi) \div 2
       IN IF SinSq(mid) <= p THEN ASinSqrtIn(p, mid, hi) ELSE ASinSqrtIn(p, lo, mid)

\* theta in [0, pi/2] with sin^2(theta) = p
ASinSqrt(p) ==
  IF p <= 0 THEN 0
  ELSE IF p >= SCALE THEN HALF_PI
  ELSE ASinSqrtIn(p, 0, HALF_PI)

\* ln(m) for m in [1, 2], by bisection on exp over [lo, hi)
RECURSIVE LnIn(_, _, _)
LnIn(m, lo, hi) ==
  IF hi - lo <= 1 THEN lo
  ELSE LET mid == (lo + hi) \div 2
       IN IF RExp(mid) <= m THEN LnIn(m, mid, hi) ELSE LnIn(m, lo, mid)

\* ln(y) for a real y >= 1: ln(y / 2^n) + n ln(2), with y / 2^n in [1, 2)
RECURSIVE RLn(_)
RLn(y) ==
  IF y >= 2 * SCALE THEN RLn(y \div 2) + LnIn(2 * SCALE, 0, SCALE)
  ELSE LnIn(y, 0, SCALE)

----------------------------------------------------------------------------
(* The iterative estimation controller behind iqae(epsilon, alpha).          *)

\* EPSILON: real = 0.05, in units of 1/SCALE
EPSILON == 500

\* ALPHA: real = 0.1, in units of 1/SCALE
ALPHA == 1000

\* the two keyword arguments exchanged
IqaeEpsilonIsAlpha == ALPHA

\* the arguments of iqae(epsilon=EPSILON, alpha=ALPHA)
IqaeEpsilon == EPSILON

IqaeAlpha == ALPHA

\* shots the Sampler is asked for in one round
Shots == 100

\* the Sampler's results are drawn from the multiples of Shots / HitLevels
HitLevels == 4

\* rounds after which the run is given up
RoundCap == 3

\* largest depth the schedule may choose
MaxDepth == 12

\* results of a Sampler that keeps its contract: 0 <= hits <= shots
SamplerResults == {(j * Shots) \div HitLevels : j \in 0 .. HitLevels}

\* results of a Sampler that breaks its contract: hits > shots
MalformedResults == {Shots + 1}

\* no arguments yet
NoParams == [epsilon |-> 0, alpha |-> 0]

\* the arguments of the call in the two models
Configured == [epsilon |-> IqaeEpsilon, alpha |-> IqaeAlpha]

\* the arguments a run may be started with: the configured ones, and ones
\* with epsilon <= 0 or alpha outside (0, 1)
Parameters ==
  {Configured} \cup
  {[epsilon |-> e, alpha |-> a] :
     e \in {-IqaeEpsilon, 0, IqaeEpsilon},
     a \in {-IqaeAlpha, 0, IqaeAlpha, SCALE, SCALE + IqaeAlpha}}

\* alpha = 1 taken as valid
ValidParametersClosed(p) == p.epsilon > 0 /\ 0 < p.alpha /\ p.alpha <= SCALE

\* epsilon > 0 and alpha in the open interval (0, 1)
ValidParameters(p) == p.epsilon > 0 /\ 0 < p.alpha /\ p.alpha < SCALE

\* a full count taken as a breach
MalformedAtShots(hits, shots) == hits >= shots

\* the Sampler's contract is hits <= shots
Malformed(hits, shots) == hits > shots

\* a run in Refine taken as over
RunningUntilRefine(s) == s \in {"Init", "GrowDepth"}

\* the states of the state machine in which another round follows
Running(s) == s \in {"Init", "GrowDepth", "Refine"}

\* the failure budget of one round: an even split of alpha over the rounds
RoundAlpha == IqaeAlpha \div RoundCap

\* ln(2 / alpha_i)
LogTerm == RLn((2 * SCALE * SCALE) \div RoundAlpha)

\* the Chernoff-Hoeffding half-width sqrt(ln(2 / alpha_i) / (2 n)) for n shots
HalfWidth(n) == RSqrt(LogTerm \div (2 * n))

\* the confidence interval of the measured probability, clipped to [0, 1]
MeasuredInterval(hits, n) ==
  [lo |-> Max2(0, (hits * SCALE) \div n - HalfWidth(n)),
   hi |-> Min2(SCALE, (hits * SCALE) \div n + HalfWidth(n))]

\* the monotonic branch of sin^2 the angle y lies on: [m pi/2, (m+1) pi/2)
Branch(y) == y \div HALF_PI

\* every depth taken as admissible
OneBranchAlways(d, tl, th) == TRUE

\* (2 d + 1) * [tl, th] stays on one monotonic branch
OneBranch(d, tl, th) ==
  \/ Branch((2 * d + 1) * tl) = Branch((2 * d + 1) * th)
  \/ /\ Branch((2 * d + 1) * tl) + 1 = Branch((2 * d + 1) * th)
     /\ ((2 * d + 1) * th) % HALF_PI = 0

\* the largest depth from prev up to MaxDepth that keeps the scaled angle
\* interval on one branch; prev when there is none larger
RECURSIVE LargestDepth(_, _, _, _)
LargestDepth(d, prev, tl, th) ==
  IF d <= prev THEN prev
  ELSE IF OneBranch(d, tl, th) THEN d
  ELSE LargestDepth(d - 1, prev, tl, th)

NextDepth(prev, lo, hi) == LargestDepth(MaxDepth, prev, ASinSqrt(lo), ASinSqrt(hi))

\* the angle interval a measured interval [a.lo, a.hi] at depth d stands for,
\* on the branch the previous angle interval [tl, th] scales to
InvertedAngles(a, d, tl) ==
  LET m == Branch((2 * d + 1) * tl)
      rising == m % 2 = 0
      flo == IF rising THEN ASinSqrt(a.lo) ELSE HALF_PI - ASinSqrt(a.hi)
      fhi == IF rising THEN ASinSqrt(a.hi) ELSE HALF_PI - ASinSqrt(a.lo)
  IN [lo |-> (m * HALF_PI + flo) \div (2 * d + 1),
      hi |-> (m * HALF_PI + fhi) \div (2 * d + 1)]

\* the probability interval a round at depth d with the given totals derives
DerivedInterval(hits, n, d, lo) ==
  LET t == InvertedAngles(MeasuredInterval(hits, n), d, ASinSqrt(lo))
  IN [lo |-> SinSq(t.lo), hi |-> SinSq(t.hi)]

\* the running interval intersected with a derived one
Intersect(lo, hi, new) == [lo |-> Max2(lo, new.lo), hi |-> Min2(hi, new.hi)]

\* the run ends when (U - L) <= 2 epsilon
WidthReached(lo, hi) == hi - lo <= 2 * IqaeEpsilon

\* shots and hits of the rounds logged at depth d
RECURSIVE TotalAt(_, _, _)
TotalAt(log, d, field) ==
  IF log = <<>> THEN 0
  ELSE (IF Head(log).depth = d THEN Head(log)[field] ELSE 0) + TotalAt(Tail(log), d, field)

----------------------------------------------------------------------------
(* main(k): allocate, grover_algorithm(k, oracle, sp_operand, full_reg),     *)
(* full_reg -> {state_reg, ind_reg}.                                         *)

\* main's registers after allocation
ProgramInit ==
  /\ model \in Models
  /\ k \in 0 .. MaxK
  /\ pc = "main"
  /\ x1 = 0
  /\ x2 = 0
  /\ max_out = NoReg
  /\ geq_reg = -1
  /\ ind = 0
  /\ applied = <<>>
  /\ blocks = <<>>
  /\ reps = 0
  /\ prepared = [g |-> 0, b |-> 0]
  /\ good = 0
  /\ bad = 0

\* no estimation run yet
EstimationIdle ==
  /\ status = "Created"
  /\ params = NoParams
  /\ sampled = -1
  /\ depth = 0
  /\ low = 0
  /\ high = SCALE
  /\ firstRound = TRUE
  /\ rounds = <<>>
  /\ error = ""

\* no notebook model runs
NotebooksIdle ==
  /\ program = ""
  /\ npc = "main"
  /\ amps = <<>>
  /\ iters = 0
  /\ outcome = NoOutcome
  /\ verdict = ""

\* my_qpe_flexible is not called
QpeIdle ==
  /\ phase_len = 0
  /\ qpc = "idle"
  /\ qpe_index = 0
  /\ u_inner = 0
  /\ u_calls = 0
  /\ pw_arg = 0
  /\ repetitions = -1
  /\ qcalls = <<>>
  /\ qcall = 0
  /\ qlog = <<>>

\* exponential_amplitude_loading is not being executed
LoadingIdle ==
  /\ lpc = "idle"
  /\ lx = 0
  /\ lx0 = 0
  /\ laux = 0
  /\ laux0 = 0
  /\ lres = 0
  /\ lres0 = 0
  /\ lidx = 0
  /\ lrot = {}
  /\ lweight = SCALE

Init == ProgramInit /\ EstimationIdle /\ NotebooksIdle /\ QpeIdle /\ LoadingIdle

\* allocate(.., full_reg); grover_algorithm calls sp_operand(x)
SpOperand ==
  /\ pc = "main"
  /\ applied' = Append(applied, "sp_operand")
  /\ pc' = "prepare_x1"
  /\ UNCHANGED <<model, k, x1, x2, max_out, geq_reg, ind, blocks, reps, prepared, good, bad>>
  /\ UNCHANGED <<estvars, nbvars, qpevars, loadvars>>

\* inplace_prepare_state(.., 0, x1): the branch takes a value of non-zero probability
PrepareX1 ==
  /\ pc = "prepare_x1"
  /\ \E v \in 0 .. Pow2(NUM_QUBITS) - 1 :
       /\ Probabilities[v + 1] > 0
       /\ x1' = v
  /\ pc' = "prepare_x2"
  /\ UNCHANGED <<model, k, x2, max_out, geq_reg, ind, applied, blocks, reps, prepared, good, bad>>
  /\ UNCHANGED <<estvars, nbvars, qpevars, loadvars>>

\* inplace_prepare_state(.., 0, x2)
PrepareX2 ==
  /\ pc = "prepare_x2"
  /\ \E v \in 0 .. Pow2(NUM_QUBITS) - 1 :
       /\ Probabilities[v + 1] > 0
       /\ x2' = v
  /\ pc' = "affine_max"
  /\ UNCHANGED <<model, k, x1, max_out, geq_reg, ind, applied, blocks, reps, prepared, good, bad>>
  /\ UNCHANGED <<estvars, nbvars, qpevars, loadvars>>

\* within { affine_max(x1, x2, max_out) }
AffineMax ==
  /\ pc = "affine_max"
  /\ max_out' = affine_max(model, x1, x2)
  /\ pc' = IF model = "brute_force" THEN "brute_force_payoff"
           ELSE "asset_geq_strike_price"
  /\ UNCHANGED <<model, k, x1, x2, geq_reg, ind, applied, blocks, reps, prepared, good, bad>>
  /\ UNCHANGED <<estvars, nbvars, qpevars, loadvars>>

\* apply { brute_force_payoff(max_out, ind_reg) }
BruteForcePayoff ==
  /\ pc = "brute_force_payoff"
  /\ ind' = brute_force_payoff(max_out)
  /\ pc' = "uncompute_max"
  /\ UNCHANGED <<model, k, x1, x2, max_out, geq_reg, applied, blocks, reps, prepared, good, bad>>
  /\ UNCHANGED <<estvars, nbvars, qpevars, loadvars>>

\* direct_payoff: within { asset_geq_strike_price(max_reg, geq_reg) }
AssetGeqStrikePrice ==
  /\ pc = "asset_geq_strike_price"
  /\ geq_reg' = asset_geq_strike_price(max_out)
  /\ pc' = "direct_load_amplitudes"
  /\ UNCHANGED <<model, k, x1, x2, max_out, ind, applied, blocks, reps, prepared, good, bad>>
  /\ UNCHANGED <<estvars, nbvars, qpevars, loadvars>>

\* direct_payoff: apply { direct_load_amplitudes(geq_reg, max_reg, aux_reg, ind_reg) }
DirectLoadAmplitudes ==
  /\ pc = "direct_load_amplitudes"
  /\ ind' = direct_load_amplitudes(geq_reg, max_out)
  /\ blocks' = blocks \o DirectBlocks(geq_reg)
  /\ pc' = "uncompute_geq"
  /\ UNCHANGED <<model, k, x1, x2, max_out, geq_reg, applied, reps, prepared, good, bad>>
  /\ UNCHANGED <<estvars, nbvars, qpevars, loadvars>>

\* direct_payoff: the within block is undone, geq_reg is released
UncomputeGeq ==
  /\ pc = "uncompute_geq"
  /\ geq_reg' = -1
  /\ pc' = "uncompute_max"
  /\ UNCHANGED <<model, k, x1, x2, max_out, ind, applied, blocks, reps, prepared, good, bad>>
  /\ UNCHANGED <<estvars, nbvars, qpevars, loadvars>>

\* the within block affine_max is undone, max_out is released; sp_operand returns
UncomputeMax ==
  /\ pc = "uncompute_max"
  /\ max_out' = NoReg
  /\ prepared' = Prepared(model)
  /\ good' = prepared'.g
  /\ bad' = prepared'.b
  /\ pc' = "power"
  /\ UNCHANGED <<model, k, x1, x2, geq_reg, ind, applied, blocks, reps>>
  /\ UNCHANGED <<estvars, nbvars, qpevars, loadvars>>

\* one application too many
PowerCountPlusOne(n) == n + 1

\* number of grover_operator applications of power (n) { ... }
PowerCount(n) == n

\* power (k) { grover_operator(oracle_operand, sp_operand, x) }: one application
GroverOperator ==
  /\ pc = "power"
  /\ reps < PowerCount(k)
  /\ LET v == grover_operator(prepared, [g |-> good, b |-> bad])
     IN /\ good' = v.g
        /\ bad' = v.b
  /\ reps' = reps + 1
  /\ applied' = Append(applied, "grover_operator")
  /\ UNCHANGED <<model, k, pc, x1, x2, max_out, geq_reg, ind, blocks, prepared>>
  /\ UNCHANGED <<estvars, nbvars, qpevars, loadvars>>

\* full_reg -> {state_reg, ind_reg}: main returns
Return ==
  /\ pc = "power"
  /\ reps >= PowerCount(k)
  /\ pc' = "done"
  /\ UNCHANGED <<model, k, x1, x2, max_out, geq_reg, ind, applied, blocks, reps, prepared, good, bad>>
  /\ UNCHANGED <<estvars, nbvars, qpevars, loadvars>>

Next ==
  \/ SpOperand
  \/ PrepareX1
  \/ PrepareX2
  \/ AffineMax
  \/ BruteForcePayoff
  \/ AssetGeqStrikePrice
  \/ DirectLoadAmplitudes
  \/ UncomputeGeq
  \/ UncomputeMax
  \/ GroverOperator
  \/ Return

Spec == Init /\ [][Next]_vars

----------------------------------------------------------------------------
(* Properties. *)

\* tolerance of a comparison of two amplitudes: 0.005
Tolerance == SCALE \div 200

Near(a, b) == Abs(a - b) <= Tolerance

\* max_out is allocated and holds affine_max(x1, x2)
MaxAllocated ==
  pc \in {"brute_force_payoff", "asset_geq_strike_price", "direct_load_amplitudes",
          "uncompute_geq", "uncompute_max"}

\* the values 0 .. 2^size - 1 a register of max_out's type can hold
Representable(reg) == 0 .. Pow2(reg.size) - 1

\* four times the second branch a*x1 + a*x2 + b, written out for the two models:
\* (0.5, -1.5) gives 2 x1 + 2 x2 - 6, (0.75, -1.25) gives 3 x1 + 3 x2 - 5
FourTimesAffine(m, a, b) ==
  IF m = "brute_force" THEN 2 * a + 2 * b - 6 ELSE 3 * a + 3 * b - 5

(* C1: for x1, x2 in 0..3, affine_max sets res to exactly
   max(x1 * 1.0, a*x1 + a*x2 + b), (a, b) = (0.5, -1.5) in the brute-force
   model and (0.75, -1.25) in the direct model, with no rounding of either
   branch; when the branches are equal the result is the first branch's value. *)
C1_AffineMaxExact ==
  MaxAllocated =>
    /\ 4 * max_out.raw
         = Pow2(max_out.fraction_digits) * Max2(4 * x1, FourTimesAffine(model, x1, x2))
    /\ (4 * x1 = FourTimesAffine(model, x1, x2))
         => max_out.raw = x1 * Pow2(max_out.fraction_digits)
    /\ max_out.raw \in Representable(max_out)

\* the direct model on the tie x1 = 1, x2 = 2 (0.75 * 3 - 1.25 = 1.0)
C1_Witness ==
  /\ MaxAllocated
  /\ model = "direct"
  /\ x1 = 1
  /\ x2 = 2
  /\ max_out.raw = Pow2(max_out.fraction_digits)

(* C2: in the direct payoff encoder asset_geq_strike_price sets geq to 1
   exactly when maxValue >= 1.5, for every value the max register holds after
   affine_max over x1, x2 in 0..3. *)
C2_GeqIffAtLeastStrike ==
  pc \in {"direct_load_amplitudes", "uncompute_geq"} =>
    (geq_reg = 1 <=> 2 * max_out.raw >= 3 * Pow2(max_out.fraction_digits))

\* geq is set on the smallest value above the strike, 1.75 (x1 = 1, x2 = 3)
C2_Witness ==
  /\ pc = "direct_load_amplitudes"
  /\ geq_reg = 1
  /\ 4 * max_out.raw = 7 * Pow2(max_out.fraction_digits)

(* C3: in direct_load_amplitudes exactly one of the two controlled blocks acts
   for every value of geq_reg: for geq_reg = 0 the indicator gets one rotation,
   the same for every value max_reg could hold, and for geq_reg = 1 only
   exponential_amplitude_loading is applied. *)
C3_ExactlyOneBranch ==
  pc = "uncompute_geq" =>
    /\ Len(blocks) = 1
    /\ geq_reg \in {0, 1}
    /\ geq_reg = 0 =>
         /\ blocks = <<"RY">>
         /\ \A r \in Representable(max_out) :
              ind = direct_load_amplitudes(0, [max_out EXCEPT !.raw = r])
    /\ geq_reg = 1 =>
         /\ blocks = <<"exponential_amplitude_loading">>
         /\ ind = exponential_amplitude_loading(ExpRate(max_out), max_out.raw,
                                                max_out.size)

\* the out-of-the-money rotation on a non-zero max_reg (1.0)
C3_Witness ==
  /\ pc = "uncompute_geq"
  /\ geq_reg = 0
  /\ max_out.raw = Pow2(max_out.fraction_digits)
  /\ blocks = <<"RY">>
  /\ ind > 0

Unit(a) == 0 <= a /\ a <= SCALE

(* C4: every amplitude the payoff encoders load lies in [0, 1]: the brute-force
   ratio for every representable value of max_reg (the numerator never exceeds
   the denominator), the asin argument of the out-of-the-money rotation, and
   the acos argument of every ladder index. *)
C4_AmplitudesInUnitInterval ==
  MaxAllocated =>
    /\ \A r \in Representable(max_out) :
         /\ Unit(brute_force_payoff([max_out EXCEPT !.raw = r]))
         /\ PayoffNumerator([max_out EXCEPT !.raw = r]) <= PayoffDenominator(max_out)
    /\ Unit(OtmArgument(max_out))
    /\ \A index \in 0 .. max_out.size - 1 :
         Unit(LadderCos(ExpRate(max_out), index))
    /\ pc \in {"uncompute_geq", "uncompute_max"} => Unit(ind)

\* the ladder has loaded an amplitude strictly between 0 and 1
C4_Witness ==
  /\ pc = "uncompute_geq"
  /\ geq_reg = 1
  /\ 0 < ind
  /\ ind < SCALE

\* rate * v for the register value v = raw / 2^fraction_digits
RateTimesValue(reg, raw) == (RATE * raw) \div Pow2(reg.fraction_digits)

\* the largest raw value of a register, vMax = VMaxRaw / 2^fraction_digits
VMaxRaw(reg) == Pow2(reg.size) - 1

\* clamp(scale * exp(rate * v) + shift, floor, inf): the shift added to the
\* scaled exponential
ShiftOutside(reg, raw) ==
  Max2((S0 * RExp(RateTimesValue(reg, raw))) \div 100 + SHIFT, RInt(FLOOR))

\* clamp(scale * exp(rate * v + shift), floor, inf): the shift inside the exponent
ShiftInside(reg, raw) ==
  Max2((S0 * RExp(RateTimesValue(reg, raw) + SHIFT)) \div 100, RInt(FLOOR))

(* C5 as stated: for every value v of the max register brute_force_payoff
   multiplies the indicator by
   sqrt(clamp(scale * exp(rate * v) + shift, floor, inf))
     / sqrt(clamp(scale * exp(rate * vMax) + shift, floor, inf)). *)
C5_ShiftAddedToScaledExponential ==
  (model = "brute_force" /\ pc = "uncompute_max") =>
    Near(ind, RDiv(RSqrt(ShiftOutside(max_out, max_out.raw)),
                   RSqrt(ShiftOutside(max_out, VMaxRaw(max_out)))))

(* C5, amended: for every representable value v of the max register
   brute_force_payoff multiplies the indicator by
   sqrt(clamp(scale * exp(rate * v + shift), floor, inf))
     / sqrt(clamp(scale * exp(rate * vMax + shift), floor, inf)),
   the shift being added to rate * v inside the exponential, with
   v = raw / 2^fraction_digits and vMax = (2^size - 1) / 2^fraction_digits. *)
C5_ShiftInsideExponent ==
  /\ (model = "brute_force" /\ pc = "uncompute_max") =>
       Near(ind, RDiv(RSqrt(ShiftInside(max_out, max_out.raw)),
                      RSqrt(ShiftInside(max_out, VMaxRaw(max_out)))))
  /\ MaxAllocated =>
       \A r \in Representable(max_out) :
         Near(brute_force_payoff([max_out EXCEPT !.raw = r]),
              RDiv(RSqrt(ShiftInside(max_out, r)),
                   RSqrt(ShiftInside(max_out, VMaxRaw(max_out)))))

\* the brute-force payoff has loaded the amplitude of an unclamped value (2.0)
C5_Witness ==
  /\ model = "brute_force"
  /\ pc = "uncompute_max"
  /\ max_out.raw = 2 * Pow2(max_out.fraction_digits)
  /\ ClampedAsset(max_out, MaxRegFixed(max_out)) > RInt(FLOOR)
  /\ ind > 0

\* the raw value of the strike 1.5 in a register with at least one fraction digit
StrikeRaw(reg) == (3 * Pow2(reg.fraction_digits)) \div 2

\* the clamp floor 190 is active in brute_force_payoff's numerator
ClampActive(reg) == ClampedAsset(reg, MaxRegFixed(reg)) = RInt(FLOOR)

(* C6: the brute-force and the direct encodings give the same indicator
   amplitude, up to the tolerance, when the max register equals the strike 1.5
   and when it holds its minimum and maximum representable values; and the
   direct out-of-the-money constant 13.784 / sqrt(normaliser) equals the
   brute-force amplitude wherever the clamp floor 190 is active. *)
C6_EncodingsAgree ==
  MaxAllocated =>
    /\ \A r \in {0, StrikeRaw(max_out), VMaxRaw(max_out)} :
         Near(brute_force_payoff([max_out EXCEPT !.raw = r]),
              direct_payoff([max_out EXCEPT !.raw = r]))
    /\ \A r \in Representable(max_out) :
         ClampActive([max_out EXCEPT !.raw = r]) =>
           Near(OtmArgument(max_out), brute_force_payoff([max_out EXCEPT !.raw = r]))
    /\ (pc = "uncompute_geq" /\ max_out.raw = 0) => Near(ind, brute_force_payoff(max_out))

\* the direct encoder has loaded the register's minimum value, where the
\* brute-force clamp is active
C6_Witness ==
  /\ pc = "uncompute_geq"
  /\ max_out.raw = 0
  /\ geq_reg = 0
  /\ ClampActive(max_out)
  /\ ind > 0

RECURSIVE AllGrover(_)
AllGrover(ops) ==
  ops = <<>> \/ (Head(ops) = "grover_operator" /\ AllGrover(Tail(ops)))

(* C7: grover_algorithm applies sp_operand exactly once and then
   grover_operator exactly k times, in that order, for every k >= 0; for k = 0
   no grover_operator is applied and the resulting state is the state
   sp_operand prepared. *)
C7_SpOnceThenKGrover ==
  /\ pc # "main" =>
       /\ Len(applied) >= 1
       /\ Head(applied) = "sp_operand"
       /\ AllGrover(Tail(applied))
       /\ Len(applied) <= 1 + k
  /\ pc \notin {"power", "done"} => Len(applied) <= 1
  /\ pc = "done" =>
       /\ Len(applied) = 1 + k
       /\ reps = k
       /\ k = 0 => (applied = <<"sp_operand">> /\ good = prepared.g /\ bad = prepared.b)

\* main(0) has returned with the prepared state
C7_Witness ==
  /\ pc = "done"
  /\ k = 0
  /\ applied = <<"sp_operand">>
  /\ good = prepared.g
  /\ good > 0

\* sin((2 r + 1) theta) from sin(theta) = s alone, by the three-term recurrence
\* sin((2 j + 3) theta) = 2 cos(2 theta) sin((2 j + 1) theta) - sin((2 j - 1) theta),
\* cos(2 theta) = 1 - 2 s^2, sin(-theta) = -s
RECURSIVE SinOdd(_, _)
SinOdd(s, r) ==
  IF r = 0 THEN s
  ELSE 2 * RMul(SCALE - 2 * RMul(s, s), SinOdd(s, r - 1))
         - (IF r = 1 THEN -s ELSE SinOdd(s, r - 2))

(* C8: for every depth k >= 0, measuring ind_reg after main(k) yields the
   success outcome with probability sin^2((2k+1) theta), where sin^2(theta) = p
   is the success probability of the unamplified preparation. *)
C8_AmplifiedProbability ==
  /\ pc \in {"power", "done"} =>
       /\ Near(RMul(good, good), RMul(SinOdd(prepared.g, reps), SinOdd(prepared.g, reps)))
       /\ Near(RMul(good, good) + RMul(bad, bad), SCALE)
       /\ Near(RMul(prepared.g, prepared.g), SuccessProbability(model))
  /\ pc = "done" =>
       Near(RMul(good, good), RMul(SinOdd(prepared.g, k), SinOdd(prepared.g, k)))

\* main(2) has returned: two grover_operator applications
C8_Witness ==
  /\ pc = "done"
  /\ k = 2
  /\ reps = 2
  /\ good # prepared.g

----------------------------------------------------------------------------
(* The estimation run: iqae_res = iqae(epsilon=EPSILON, alpha=ALPHA).        *)

\* setup: the arguments are validated before any Sampler call
Setup ==
  /\ status = "Created"
  /\ \E p \in Parameters :
       /\ params' = p
       /\ status' = IF ValidParameters(p) THEN "Init" ELSE "Rejected"
       /\ error' = IF ValidParameters(p) THEN "" ELSE "InvalidParameterError"
  /\ UNCHANGED <<sampled, depth, low, high, firstRound, rounds>>
  /\ UNCHANGED <<progvars, nbvars, qpevars, loadvars>>

\* one round with a Sampler whose results are drawn from the given set: choose
\* the depth, draw hits, reject a malformed result; otherwise derive the
\* round's interval from the totals at that depth, intersect, and decide how
\* to go on
SampledRound(results) ==
  /\ Running(status)
  /\ \E hits \in results :
       LET d   == NextDepth(depth, low, high)
           n   == Shots + TotalAt(rounds, d, "shots")
           h   == hits + TotalAt(rounds, d, "hits")
           new == DerivedInterval(h, n, d, low)
           it  == Intersect(low, high, new)
       IN /\ sampled' = hits
          /\ IF Malformed(hits, Shots)
             THEN /\ status' = "Aborted"
                  /\ error' = "ProtocolViolationError"
                  /\ UNCHANGED <<depth, low, high, firstRound, rounds>>
             ELSE /\ rounds' = Append(rounds, [depth |-> d, shots |-> Shots, hits |-> hits])
                  /\ depth' = d
                  /\ low' = it.lo
                  /\ high' = it.hi
                  /\ firstRound' = FALSE
                  /\ status' = IF WidthReached(it.lo, it.hi) THEN "Terminated"
                               ELSE IF Len(rounds) + 1 >= RoundCap THEN "Failed"
                               ELSE IF d > depth THEN "GrowDepth"
                               ELSE "Refine"
                  /\ error' = IF ~WidthReached(it.lo, it.hi) /\ Len(rounds) + 1 >= RoundCap
                              THEN "NonConvergenceError"
                              ELSE ""
  /\ UNCHANGED params
  /\ UNCHANGED <<progvars, nbvars, qpevars, loadvars>>

\* a round with a Sampler that keeps its contract
Round == SampledRound(SamplerResults)

\* a round with a Sampler that may break its contract
RoundAnySampler == SampledRound(SamplerResults \cup MalformedResults)

EstimationInit == Init /\ k = 0

EstimationNext == Setup \/ Round

SpecEstimation == EstimationInit /\ [][EstimationNext]_vars

\* the records a round can add to the log
RoundRecords == [depth : 0 .. MaxDepth, shots : {Shots}, hits : SamplerResults]

\* what a step of Round does to the log: the controller is single-threaded and
\* the Sampler call returns, so a running controller records its next round
RoundRecorded == Running(status) /\ \E r \in RoundRecords : rounds' = Append(rounds, r)

\* the run is scheduled until it ends
SpecEstimationFair == EstimationInit /\ [][EstimationNext]_vars /\ WF_rounds(RoundRecorded)

SamplerNext == Setup \/ RoundAnySampler

\* the run with a Sampler that may return hits > shots
SpecSampler == EstimationInit /\ [][SamplerNext]_vars

(* C9: the estimation run terminates normally only when the current interval
   satisfies (U - L) <= 2 * epsilon, epsilon = 0.05: Terminated is never
   reached with a wider interval, and the interval the controller returns has
   width <= 2 * 0.05. *)
C9_TerminatedOnlyWithinTarget ==
  /\ status = "Terminated" => high - low <= 2 * (SCALE \div 20)
  /\ status = "Terminated" => error = ""
  /\ (status \in {"GrowDepth", "Refine", "Failed"}) => high - low > 2 * (SCALE \div 20)

\* a run that grew the depth and ended with a proper interval within the target
C9_Witness ==
  /\ status = "Terminated"
  /\ depth >= 1
  /\ Len(rounds) >= 2
  /\ low < high
  /\ high - low <= 2 * (SCALE \div 20)

(* C10: across any sequence of rounds the running interval [L_i, U_i] starts
   at [0, 1] and only ever narrows: L_i is non-decreasing, U_i is
   non-increasing, and 0 <= L_i <= U_i <= 1 holds after every round (the
   interval never becomes empty or inverted when a new round's interval is
   intersected with it). *)
C10_IntervalOnlyNarrows ==
  /\ low = 0
  /\ high = SCALE
  /\ [][/\ low' >= low
        /\ high' <= high
        /\ 0 <= low'
        /\ low' <= high'
        /\ high' <= SCALE]_vars

\* (2 d + 1) * [tl, th] lies inside one half-period [m pi/2, (m+1) pi/2] of sin^2
InOneHalfPeriod(d, tl, th) ==
  \E m \in 0 .. 2 * MaxDepth + 1 :
    /\ m * HALF_PI <= (2 * d + 1) * tl
    /\ (2 * d + 1) * th <= (m + 1) * HALF_PI

(* C11: the depth schedule starts at k_0 = 0 and is non-decreasing over the
   rounds of a run; each chosen k_i keeps the scaled angle interval
   (2 k_i + 1) * [theta_low, theta_high] of the previous round inside one
   half-period, and when no larger depth satisfies this, k_i equals the
   previous depth. *)
C11_DepthSchedule ==
  /\ depth = 0
  /\ [][LET tl == ASinSqrt(low)
            th == ASinSqrt(high)
        IN /\ depth' >= depth
           /\ InOneHalfPeriod(depth', tl, th)
           /\ (\A d \in depth + 1 .. MaxDepth : ~InOneHalfPeriod(d, tl, th))
                => depth' = depth]_vars

\* a run whose depth stayed at 0 for a round and then grew
C11_Witness ==
  /\ Len(rounds) >= 3
  /\ rounds[2].depth = 0
  /\ rounds[3].depth > 0
  /\ depth = rounds[3].depth

\* the run has ended normally, within the target width
EndedTerminated == status = "Terminated" /\ error = "" /\ high - low <= 2 * IqaeEpsilon

\* the run has ended at the round cap
EndedNonConvergence ==
  status = "Failed" /\ error = "NonConvergenceError" /\ Len(rounds) >= RoundCap

(* C12: with a round cap, every estimation run eventually ends: either in
   Terminated with interval width <= 2 * epsilon, or with NonConvergenceError
   once the cap is reached; a degenerate Sampler that always returns 0 or
   always returns shots cannot make the controller loop forever. *)
C12_RunEnds == (status = "Init") ~> (EndedTerminated \/ EndedNonConvergence)

\* a run the cap ended: no round reached the target width
C12_Witness ==
  /\ EndedNonConvergence
  /\ high - low > 2 * IqaeEpsilon
  /\ \A i \in 1 .. Len(rounds) : rounds[i].hits \in SamplerResults

(* C13: starting an estimation run with epsilon <= 0 or alpha outside the open
   interval (0, 1) is rejected with InvalidParameterError at setup, before any
   Sampler call and without creating any round; the configured values
   EPSILON = 0.05 and ALPHA = 0.1 are accepted. *)
C13_InvalidParametersRejected ==
  status # "Created" =>
    /\ (params.epsilon <= 0 \/ params.alpha <= 0 \/ params.alpha >= SCALE)
         => /\ status = "Rejected"
            /\ error = "InvalidParameterError"
            /\ sampled = -1
            /\ rounds = <<>>
    /\ (params.epsilon = SCALE \div 20 /\ params.alpha = SCALE \div 10)
         => /\ status # "Rejected"
            /\ error # "InvalidParameterError"

\* a run rejected for alpha = 1 alone
C13_Witness ==
  /\ status = "Rejected"
  /\ params.epsilon > 0
  /\ params.alpha = SCALE
  /\ error = "InvalidParameterError"

(* C14: during a run the controller raises an error from a Sampler result only
   when hits > shots (ProtocolViolationError, fatal, not retried); for every
   Sampler result with 0 <= hits <= shots, including the extreme results 0 and
   shots, the round is recorded and the run continues without error. *)
C14_OnlyMalformedResultIsAnError ==
  [][sampled' # sampled \/ rounds' # rounds =>
       /\ sampled' > Shots
            => /\ status' = "Aborted"
               /\ error' = "ProtocolViolationError"
               /\ rounds' = rounds
       /\ (0 <= sampled' /\ sampled' <= Shots)
            => /\ rounds' = Append(rounds, [depth |-> depth', shots |-> Shots, hits |-> sampled'])
               /\ status' # "Aborted"
               /\ error' # "ProtocolViolationError"
               /\ Len(rounds') < RoundCap => error' = ""
       /\ status = "Aborted" => FALSE]_vars

\* an aborted run that had recorded a round with the extreme result shots
C14_Witness ==
  /\ status = "Aborted"
  /\ error = "ProtocolViolationError"
  /\ sampled > Shots
  /\ Len(rounds) >= 1
  /\ rounds[Len(rounds)].hits = Shots

RECURSIVE SeqSum(_)
SeqSum(q) == IF q = <<>> THEN 0 ELSE Head(q) + SeqSum(Tail(q))

(* C16: every probability table loaded by inplace_prepare_state in both models
   ([0.0656, 0.4344, 0.4344, 0.0656]) is a valid distribution: all entries are
   non-negative, they sum to 1 within 1e-6, and the table length 4 equals 2^2
   for the 2-qubit target registers x1 = x[0:2] and x2 = x[2:4]. *)
C16_ProbabilityTableValid ==
  /\ \A i \in DOMAIN Probabilities : Probabilities[i] >= 0
  /\ Abs(SeqSum(Probabilities) - SCALE) * 100 <= 1
  /\ Len(Probabilities) = 4
  /\ Len(Probabilities) = Pow2(NUM_QUBITS)
  /\ pc \notin {"main", "prepare_x1"} => x1 + 1 \in DOMAIN Probabilities
  /\ pc \notin {"main", "prepare_x1", "prepare_x2"} => x2 + 1 \in DOMAIN Probabilities

\* both tables loaded, on the branch of the two least probable values
C16_Witness ==
  /\ pc = "affine_max"
  /\ x1 = 3
  /\ x2 = 0
  /\ Probabilities[x1 + 1] = 656

----------------------------------------------------------------------------
(* The Grover search model (grover.qmod lines 1-16, grover.ipynb) and the    *)
(* hello-many-worlds model (y = x**2 + 1 on a uniform superposition).        *)

RECURSIVE BitAnd(_, _)
BitAnd(u, v) ==
  IF u = 0 \/ v = 0 THEN 0
  ELSE (u % 2) * (v % 2) + 2 * BitAnd(u \div 2, v \div 2)

RECURSIVE BitOr(_, _)
BitOr(u, v) ==
  IF u = 0 THEN v
  ELSE IF v = 0 THEN u
  ELSE Max2(u % 2, v % 2) + 2 * BitOr(u \div 2, v \div 2)

\* qstruct PredicateVars { a: qnum<2>; b: qnum<2>; c: qnum<3> }
PredicateVars == [a : 0 .. 3, b : 0 .. 3, c : 0 .. 7]

\* res ^= ((((vars.a + vars.b) + (vars.c & 6)) % 4) | (4 & vars.c)) == 4
quantum_predicate(v) ==
  BitOr(((v.a + v.b) + BitAnd(v.c, 6)) % 4, BitAnd(4, v.c)) = 4

\* one binary operator of the Python expression; a comparison gives 1 or 0
ApplyOperator(op, u, v) ==
  CASE op = "+" -> u + v
    [] op = "%" -> u % v
    [] op = "&" -> BitAnd(u, v)
    [] op = "|" -> BitOr(u, v)
    [] op = "==" -> IF u = v THEN 1 ELSE 0

\* operand op operand ... with the operators of one precedence level applied
\* from left to right; done holds the part already scanned
RECURSIVE FoldLevel(_, _, _)
FoldLevel(done, rest, ops) ==
  IF rest = <<>> THEN done
  ELSE LET op   == rest[1]
           v    == rest[2]
           tail == SubSeq(rest, 3, Len(rest))
       IN IF op \in ops
          THEN FoldLevel(SubSeq(done, 1, Len(done) - 1)
                           \o <<ApplyOperator(op, done[Len(done)], v)>>, tail, ops)
          ELSE FoldLevel(done \o <<op, v>>, tail, ops)

\* the value of an unparenthesised expression under the given precedence
\* levels, tightest first
RECURSIVE Evaluate(_, _)
Evaluate(tokens, levels) ==
  IF levels = <<>> THEN tokens[1]
  ELSE Evaluate(FoldLevel(<<tokens[1]>>, SubSeq(tokens, 2, Len(tokens)), Head(levels)),
                Tail(levels))

\* precedence with == binding tighter than & and |
ComparisonFirst == <<{"%"}, {"+"}, {"=="}, {"&"}, {"|"}>>

\* Python: % over + over & over | over ==
PythonPrecedence == <<{"%"}, {"+"}, {"&"}, {"|"}, {"=="}>>

\* def classical_predicate(a, b, c): return (a + b + (c & 6)) % 4 | 4 & c == 4
classical_predicate(u, v, w) ==
  LET inner == Evaluate(<<w, "&", 6>>, PythonPrecedence)
      group == Evaluate(<<u, "+", v, "+", inner>>, PythonPrecedence)
  IN Evaluate(<<group, "%", 4, "|", 4, "&", w, "==", 4>>, PythonPrecedence) # 0

\* grover_search(1, ...)
GROVER_REPS == 1

\* allocate(4, x)
HELLO_QUBITS == 4

Programs == {"grover", "hello"}

HelloInputs == [x : 0 .. Pow2(HELLO_QUBITS) - 1]

\* the all-zero basis state allocate leaves
ZeroState(prog) == IF prog = "grover" THEN [a |-> 0, b |-> 0, c |-> 0] ELSE [x |-> 0]

\* the basis states of the allocated register
BasisStates(prog) == IF prog = "grover" THEN PredicateVars ELSE HelloInputs

\* x**2 without the + 1
XSquared(v) == v * v

\* the value of x**2 + 1
XSquaredPlusOne(v) == v * v + 1

\* the size of the output register y: the bits of the largest value
ResultSize == BitLen(XSquaredPlusOne(Pow2(HELLO_QUBITS) - 1))

\* y = x**2 + 1, as the content of y
Arithmetic(v) == XSquaredPlusOne(v) % Pow2(ResultSize)

\* no state marked
PhaseNone(v) == 1

\* phase_oracle(quantum_predicate, vars): the phase of a basis state
PhaseOracleSign(v) == IF quantum_predicate(v) THEN -1 ELSE 1

\* the sum of v * (number of states of S with amplitude v) over the values vs
RECURSIVE SumByValue(_, _, _)
SumByValue(f, S, vs) ==
  IF vs = {} THEN 0
  ELSE LET v == CHOOSE t \in vs : TRUE
       IN v * Cardinality({e \in S : f[e] = v}) + SumByValue(f, S, vs \ {v})

\* the sum of the amplitudes of the states S
SumAmps(f, S) == SumByValue(f, S, {f[e] : e \in S})

\* the (x, y) pairs of the printed parsed_counts of the hello-many-worlds run
HelloResults ==
  {<<14, 197>>, <<10, 101>>, <<2, 5>>, <<6, 37>>, <<3, 10>>, <<7, 50>>,
   <<4, 17>>, <<5, 26>>, <<0, 1>>, <<11, 122>>, <<15, 226>>, <<12, 145>>,
   <<9, 82>>, <<8, 65>>, <<1, 2>>, <<13, 170>>}

NotebooksInit ==
  /\ ProgramInit /\ model = "brute_force" /\ k = 0
  /\ EstimationIdle
  /\ QpeIdle
  /\ LoadingIdle
  /\ program \in Programs
  /\ npc = "main"
  /\ amps = <<>>
  /\ iters = 0
  /\ outcome = NoOutcome
  /\ verdict = ""

\* allocate(vars.size, vars) / allocate(4, x)
Allocate ==
  /\ npc = "main"
  /\ program \in Programs
  /\ amps' = [e \in {ZeroState(program)} |-> 1]
  /\ npc' = "allocated"
  /\ UNCHANGED <<program, iters, outcome, verdict>>
  /\ UNCHANGED <<progvars, estvars, qpevars, loadvars>>

\* hadamard_transform on the all-zero state: the uniform superposition
HadamardTransform ==
  /\ npc = "allocated"
  /\ DOMAIN amps = {ZeroState(program)}
  /\ amps' = [e \in BasisStates(program) |-> amps[ZeroState(program)]]
  /\ npc' = IF program = "hello" THEN "arithmetic"
            ELSE IF iters < GROVER_REPS THEN "oracle"
            ELSE "ready"
  /\ UNCHANGED <<program, iters, outcome, verdict>>
  /\ UNCHANGED <<progvars, estvars, qpevars, loadvars>>

\* grover_operator, first half: phase_oracle(quantum_predicate, vars)
PhaseOracle ==
  /\ npc = "oracle"
  /\ amps' = [e \in DOMAIN amps |-> PhaseOracleSign(e) * amps[e]]
  /\ npc' = "diffuser"
  /\ UNCHANGED <<program, iters, outcome, verdict>>
  /\ UNCHANGED <<progvars, estvars, qpevars, loadvars>>

\* grover_operator, second half: the reflection about the uniform
\* superposition, 2 * mean - amplitude, in units of 1 / |states|
GroverDiffuser ==
  /\ npc = "diffuser"
  /\ amps' = [e \in DOMAIN amps |->
                2 * SumAmps(amps, DOMAIN amps) - Cardinality(DOMAIN amps) * amps[e]]
  /\ iters' = iters + 1
  /\ npc' = IF iters + 1 < GROVER_REPS THEN "oracle" ELSE "ready"
  /\ UNCHANGED <<program, outcome, verdict>>
  /\ UNCHANGED <<progvars, estvars, qpevars, loadvars>>

\* y = x**2 + 1: y is allocated and holds the value on every branch
ArithmeticStep ==
  /\ npc = "arithmetic"
  /\ amps' = [e \in {[x |-> t.x, y |-> Arithmetic(t.x)] : t \in DOMAIN amps} |->
                amps[[x |-> e.x]]]
  /\ npc' = "ready"
  /\ UNCHANGED <<program, iters, outcome, verdict>>
  /\ UNCHANGED <<progvars, estvars, qpevars, loadvars>>

\* execute: a basis state of non-zero amplitude is measured
Execute ==
  /\ npc = "ready"
  /\ \E e \in DOMAIN amps :
       /\ amps[e] # 0
       /\ outcome' = e
  /\ npc' = "measured"
  /\ UNCHANGED <<program, amps, iters, verdict>>
  /\ UNCHANGED <<progvars, estvars, qpevars, loadvars>>

\* the notebook prints classical_predicate(a, b, c) for the result
PrintPredicate ==
  /\ npc = "measured"
  /\ program = "grover"
  /\ verdict' = IF classical_predicate(outcome.a, outcome.b, outcome.c) THEN "True" ELSE "False"
  /\ npc' = "printed"
  /\ UNCHANGED <<program, amps, iters, outcome>>
  /\ UNCHANGED <<progvars, estvars, qpevars, loadvars>>

NotebooksNext ==
  \/ Allocate
  \/ HadamardTransform
  \/ PhaseOracle
  \/ GroverDiffuser
  \/ ArithmeticStep
  \/ Execute
  \/ PrintPredicate

SpecNotebooks == NotebooksInit /\ [][NotebooksNext]_vars

\* the assignments classical_predicate accepts
Solutions == {v \in PredicateVars : classical_predicate(v.a, v.b, v.c)}

(* C17: for every a, b in 0..3 and c in 0..7, the quantum_predicate of
   grover.qmod, ((((a + b) + (c & 6)) % 4) | (4 & c)) == 4, has the same truth
   value as the notebook's classical_predicate(a, b, c) =
   (a + b + (c & 6)) % 4 | 4 & c == 4 evaluated under Python operator
   precedence. *)
C17_PredicatesAgree ==
  /\ \A v \in PredicateVars : quantum_predicate(v) <=> (v \in Solutions)
  /\ npc = "printed" => (verdict = "True" <=> quantum_predicate(outcome))

\* the notebook's most probable result, printed as True
C17_Witness ==
  /\ npc = "printed"
  /\ outcome = [a |-> 1, b |-> 3, c |-> 5]
  /\ verdict = "True"

\* the measurement probability of a basis state, up to the common factor
Weight(e) == amps[e] * amps[e]

(* C18: after grover_search with reps = 1 over the 7-qubit PredicateVars space,
   every assignment that satisfies the predicate has strictly higher
   measurement probability than every assignment that does not, so each of
   the three most probable results satisfies classical_predicate. *)
C18_SolutionsMostProbable ==
  (program = "grover" /\ npc \in {"ready", "measured", "printed"}) =>
    /\ iters = 1
    /\ DOMAIN amps = PredicateVars
    /\ \A e \in Solutions : \A t \in PredicateVars \ Solutions : Weight(e) > Weight(t)
    /\ \A e \in PredicateVars :
         Cardinality({t \in PredicateVars : Weight(t) > Weight(e)}) < 3 => e \in Solutions

\* the search is done and a printed result is a solution
C18_Witness ==
  /\ program = "grover"
  /\ npc = "printed"
  /\ iters = 1
  /\ outcome = [a |-> 1, b |-> 1, c |-> 6]
  /\ verdict = "True"

(* C19: in the hello-world model (allocate 4 qubits for x, hadamard_transform,
   y = x**2 + 1), every measured outcome satisfies y = x^2 + 1, and all 16
   values x in 0..15 are possible outcomes, giving exactly 16 distinct (x, y)
   pairs. *)
C19_HelloManyWorlds ==
  (program = "hello" /\ npc \in {"ready", "measured"}) =>
    /\ \A e \in DOMAIN amps : amps[e] # 0 /\ e.y = e.x * e.x + 1
    /\ {e.x : e \in DOMAIN amps} = 0 .. 15
    /\ Cardinality(DOMAIN amps) = 16
    /\ {<<e.x, e.y>> : e \in DOMAIN amps} = HelloResults
    /\ npc = "measured" => outcome.y = outcome.x * outcome.x + 1

\* the largest x measured
C19_Witness ==
  /\ program = "hello"
  /\ npc = "measured"
  /\ outcome = [x |-> 15, y |-> 226]

----------------------------------------------------------------------------
(* my_qpe_flexible (high_level_modeling_flexible_qpe.ipynb lines 69-87) with *)
(* a unitary that implements the power p naively, as p calls of U.           *)

\* largest phase register
MaxPhase == 6

\* the power 2**(index + 1)
PowerOfNextIndex(i) == Pow2(i + 1)

\* the power 2**index passed to unitary
PowerOfIndex(i) == Pow2(i)

\* my_qpe_flexible(unitary, state, phase) called with a unitary that applies
\* U pw times, as power(pw, ...) in unitary_with_power_logic
NaiveQpeCall == [unitary |-> "power", state |-> "state", phase |-> "phase"]

\* apply_to_all(H, phase) of call c
HStep(c) ==
  [call |-> c, op |-> "H", ctrl |-> -1, pw |-> 0, regs |-> {qcalls[c].phase}]

\* unitary(2**index, state) controlled on phase[0]
UnitaryStepOnFirstQubit(c, i) ==
  [call |-> c, op |-> "unitary", ctrl |-> 0, pw |-> PowerOfIndex(i),
   regs |-> {qcalls[c].phase, qcalls[c].state}]

\* control(ctrl=phase[index], stmt_block=lambda: unitary(2**index, state)) of call c
UnitaryStep(c, i) ==
  [call |-> c, op |-> "unitary", ctrl |-> i, pw |-> PowerOfIndex(i),
   regs |-> {qcalls[c].phase, qcalls[c].state}]

\* invert(lambda: qft(phase)) of call c
InvertQftStep(c) ==
  [call |-> c, op |-> "invert_qft", ctrl |-> -1, pw |-> 0, regs |-> {qcalls[c].phase}]

QpeInit ==
  /\ ProgramInit /\ model = "brute_force" /\ k = 0
  /\ EstimationIdle
  /\ NotebooksIdle
  /\ LoadingIdle
  /\ phase_len \in 1 .. MaxPhase
  /\ qpc = "apply_h"
  /\ qpe_index = 0
  /\ u_inner = 0
  /\ u_calls = 0
  /\ pw_arg = 0
  /\ repetitions = -1
  /\ qcalls = <<NaiveQpeCall>>
  /\ qcall = 1
  /\ qlog = <<>>

\* apply_to_all(H, phase)
ApplyH ==
  /\ qpc = "apply_h"
  /\ qpc' = "repeat"
  /\ qlog' = Append(qlog, HStep(qcall))
  /\ UNCHANGED <<phase_len, qpe_index, u_inner, u_calls, pw_arg, repetitions, qcalls, qcall>>
  /\ UNCHANGED <<progvars, estvars, nbvars, loadvars>>

\* one call of U inside control(phase[index], unitary(2**index, state)) when
\* unitary applies U 2**index times; the iteration begins with the first and
\* ends with the last of the 2**index calls
NaiveUCall ==
  /\ qpc = "repeat"
  /\ qpe_index < phase_len
  /\ qcalls[qcall].unitary = "power"
  /\ u_calls' = u_calls + 1
  /\ qlog' = IF u_inner = 0 THEN Append(qlog, UnitaryStep(qcall, qpe_index)) ELSE qlog
  /\ IF u_inner + 1 >= PowerOfIndex(qpe_index)
     THEN /\ qpe_index' = qpe_index + 1
          /\ u_inner' = 0
     ELSE /\ u_inner' = u_inner + 1
          /\ UNCHANGED qpe_index
  /\ UNCHANGED <<phase_len, qpc, pw_arg, repetitions, qcalls, qcall>>
  /\ UNCHANGED <<progvars, estvars, nbvars, loadvars>>

\* invert(lambda: qft(phase)) after count = phase.len iterations
InvertQft ==
  /\ qpc = "repeat"
  /\ qpe_index = phase_len
  /\ qpc' = "done"
  /\ qlog' = Append(qlog, InvertQftStep(qcall))
  /\ UNCHANGED <<phase_len, qpe_index, u_inner, u_calls, pw_arg, repetitions, qcalls, qcall>>
  /\ UNCHANGED <<progvars, estvars, nbvars, loadvars>>

QpeNext == ApplyH \/ NaiveUCall \/ InvertQft

SpecQpe == QpeInit /\ [][QpeNext]_vars

RECURSIVE SumOfPowers(_)
SumOfPowers(n) == IF n = 0 THEN 0 ELSE Pow2(n - 1) + SumOfPowers(n - 1)

(* C20 as stated: a QPE with m phase qubits that applies the controlled power
   U^(2^k) naively (as 2^k calls of U) for each index k used by
   my_qpe_flexible calls U a total of sum over k = 0..m-1 of 2^k = 2^m
   times. *)
C20_NaiveCallsTwoToTheM ==
  qpc = "done" => u_calls = SumOfPowers(phase_len) /\ u_calls = Pow2(phase_len)

(* C20, amended: a QPE with m phase qubits that applies the controlled power
   U^(2^k) naively for each index k = 0..m-1 used by my_qpe_flexible calls U
   a total of sum over k = 0..m-1 of 2^k = 2^m - 1 times. *)
C20_NaiveCallsTwoToTheMMinusOne ==
  /\ qpc = "done" => u_calls = SumOfPowers(phase_len) /\ u_calls = Pow2(phase_len) - 1
  /\ qpc = "repeat" => u_calls = SumOfPowers(qpe_index) + u_inner

\* the QPE with five phase qubits has made its 31 calls
C20_Witness ==
  /\ qpc = "done"
  /\ phase_len = 5
  /\ qpe_index = 5
  /\ u_calls = 31

\* the operations of call c applied so far, in order
StepsOfCall(c) == SelectSeq(qlog, LAMBDA e : e.call = c)

\* H on phase, then unitary(2^index, state) controlled on phase[index] for
\* index = 0, 1, ..., phase.len - 1, then the inverse QFT on phase
StepsInOrder(c) ==
  <<[call |-> c, op |-> "H", ctrl |-> -1, pw |-> 0, regs |-> {qcalls[c].phase}]>>
  \o [i \in 1 .. phase_len |->
        [call |-> c, op |-> "unitary", ctrl |-> i - 1, pw |-> 2 ^ (i - 1),
         regs |-> {qcalls[c].phase, qcalls[c].state}]]
  \o <<[call |-> c, op |-> "invert_qft", ctrl |-> -1, pw |-> 0,
        regs |-> {qcalls[c].phase}]>>

(* C23: my_qpe_flexible performs its steps in a fixed order: H on every phase
   qubit first, then for each index from 0 to phase.len - 1 exactly one call
   unitary(2^index, state) controlled on phase[index] (phase.len controlled
   calls in total, with powers 1, 2, ..., 2^(phase.len-1)), and the inverse
   QFT on phase last. *)
C23_StepsInFixedOrder ==
  qcall >= 1 =>
    LET applied_steps == StepsOfCall(qcall)
        in_order == StepsInOrder(qcall)
    IN /\ Len(applied_steps) <= Len(in_order)
       /\ applied_steps = SubSeq(in_order, 1, Len(applied_steps))
       /\ qpc = "repeat" => Len(applied_steps) = 1 + qpe_index + (IF u_inner > 0 THEN 1 ELSE 0)
       /\ qpc = "done" => applied_steps = in_order

\* a QPE with three phase qubits has finished: H, three controlled calls, the
\* inverse QFT
C23_Witness ==
  /\ qpc = "done"
  /\ phase_len = 3
  /\ Len(qlog) = 5
  /\ qlog[1].op = "H"
  /\ qlog[4].pw = 4
  /\ qlog[5].op = "invert_qft"


----------------------------------------------------------------------------
(* suzuki_trotter_with_power_logic (high_level_modeling_flexible_qpe.ipynb   *)
(* lines 169-187) with the parameters of lines 337-340.                      *)

\* largest power the function is called with
MaxPower == 100

\* QPE_SIZE = 5
QPE_SIZE == 5

\* R0 = 4
R0 == 4

\* GAMMA = 1.5, as the fraction GAMMA_NUM / GAMMA_DEN
GAMMA_NUM == 3

GAMMA_DEN == 2

\* p_0 = 2 ** (QPE_SIZE - 3) for a QPE of the given size
P0Of(size) == Pow2(size - 3)

\* p_0 = 2 ** (QPE_SIZE - 3)
P_0 == P0Of(QPE_SIZE)

\* the least n in (lo, hi] with n^GAMMA_DEN * q^GAMMA_NUM >= c^GAMMA_DEN * p^GAMMA_NUM,
\* by bisection: the ceiling of c * (p / q) ** GAMMA for p, q, c >= 1
RECURSIVE CeilingIn(_, _, _, _, _)
CeilingIn(c, p, q, lo, hi) ==
  IF hi - lo <= 1 THEN hi
  ELSE LET mid == (lo + hi) \div 2
       IN IF mid ^ GAMMA_DEN * q ^ GAMMA_NUM >= c ^ GAMMA_DEN * p ^ GAMMA_NUM
          THEN CeilingIn(c, p, q, lo, mid)
          ELSE CeilingIn(c, p, q, mid, hi)

\* ceiling(c * (p / q) ** gamma) for p >= q; there (p / q) ** gamma <= (p / q)^2
\* as gamma <= 2, which bounds the search
CeilingOfScaledPower(c, p, q) == CeilingIn(c, p, q, 0, (c * p * p) \div (q * q) + 1)

\* Piecewise((r0, pw < p_0), (ceiling(r0 * (pw / p_0) ** gamma), True))
Repetitions(r0, p_0, p) ==
  IF p < p_0 THEN r0 ELSE CeilingOfScaledPower(r0, p, p_0)

TrotterInit ==
  /\ ProgramInit /\ model = "brute_force" /\ k = 0
  /\ EstimationIdle
  /\ NotebooksIdle
  /\ LoadingIdle
  /\ phase_len = 0
  /\ qpc = "idle"
  /\ qpe_index = 0
  /\ u_inner = 0
  /\ u_calls = 0
  /\ pw_arg \in 1 .. MaxPower
  /\ repetitions = -1
  /\ qcalls = <<>>
  /\ qcall = 0
  /\ qlog = <<>>

\* the call suzuki_trotter(hamiltonian, evolution_coefficient * pw, order=1,
\* repetitions=Piecewise(...), qbv=target)
SuzukiTrotterWithPowerLogic ==
  /\ pw_arg >= 1
  /\ repetitions = -1
  /\ qpc = "idle"
  /\ repetitions' = Repetitions(R0, P_0, pw_arg)
  /\ UNCHANGED <<phase_len, qpc, qpe_index, u_inner, u_calls, pw_arg, qcalls, qcall, qlog>>
  /\ UNCHANGED <<progvars, estvars, nbvars, loadvars>>

TrotterNext == SuzukiTrotterWithPowerLogic

SpecTrotter == TrotterInit /\ [][TrotterNext]_vars

(* C21: for every power p >= 1, suzuki_trotter_with_power_logic uses the number
   of repetitions f(p) = r0 when p < p0 and f(p) = r0 * ceil((p / p0)^gamma)
   when p >= p0; with the notebook's parameters r0 = 4, p0 = 2^(QPE_SIZE-3) = 4,
   gamma = 1.5 this holds for every power 2^index, index in 0..4, used by the
   QPE. *)
C21_RepetitionsFollowAnsatz ==
  repetitions # -1 =>
    /\ pw_arg < P_0 => repetitions = R0
    /\ pw_arg >= P_0 => repetitions = R0 * CeilingOfScaledPower(1, pw_arg, P_0)

----------------------------------------------------------------------------
(* main of the swap-test model (high_level_modeling_flexible_qpe.ipynb lines *)
(* 511-543): two my_qpe_flexible calls, then a swap test of their phases.    *)

\* the arguments of the two my_qpe_flexible calls, in program order
SwapTestCalls ==
  << [unitary |-> "suzuki_trotter", state |-> "state", phase |-> "phase_approx"],
     [unitary |-> "power",          state |-> "state", phase |-> "phase_exact"] >>

\* prepare_amplitudes(v[:, chosen_eig].tolist(), 0.0, state)
PrepareAmplitudesStep ==
  [call |-> 0, op |-> "prepare_amplitudes", ctrl |-> -1, pw |-> 0, regs |-> {"state"}]

\* swap_test(state1=phase_exact, state2=phase_approx, test=test)
SwapTestStep ==
  [call |-> 0, op |-> "swap_test", ctrl |-> -1, pw |-> 0,
   regs |-> {"phase_exact", "phase_approx", "test"}]

\* allocate(QPE_SIZE, phase_approx); allocate(QPE_SIZE, phase_exact)
SwapTestInit ==
  /\ ProgramInit /\ model = "brute_force" /\ k = 0
  /\ EstimationIdle
  /\ NotebooksIdle
  /\ LoadingIdle
  /\ phase_len \in QPE_SIZE - 2 .. MaxPhase
  /\ qpc = "prepare"
  /\ qpe_index = 0
  /\ u_inner = 0
  /\ u_calls = 0
  /\ pw_arg = 0
  /\ repetitions = -1
  /\ qcalls = SwapTestCalls
  /\ qcall = 0
  /\ qlog = <<>>

\* prepare_amplitudes(..., state), then the first my_qpe_flexible call begins
PrepareAmplitudes ==
  /\ qpc = "prepare"
  /\ qpc' = "apply_h"
  /\ qcall' = 1
  /\ qlog' = Append(qlog, PrepareAmplitudesStep)
  /\ UNCHANGED <<phase_len, qpe_index, u_inner, u_calls, pw_arg, repetitions, qcalls>>
  /\ UNCHANGED <<progvars, estvars, nbvars, loadvars>>

\* control(phase[index], unitary(2**index, state)) when unitary is
\* suzuki_trotter_with_power_logic: one suzuki_trotter call with the
\* repetitions of the power logic
TrotterUnitaryCall ==
  /\ qpc = "repeat"
  /\ qpe_index < phase_len
  /\ qcalls[qcall].unitary = "suzuki_trotter"
  /\ pw_arg' = PowerOfIndex(qpe_index)
  /\ repetitions' = Repetitions(R0, P0Of(phase_len), PowerOfIndex(qpe_index))
  /\ qlog' = Append(qlog, UnitaryStep(qcall, qpe_index))
  /\ qpe_index' = qpe_index + 1
  /\ UNCHANGED <<phase_len, qpc, u_inner, u_calls, qcalls, qcall>>
  /\ UNCHANGED <<progvars, estvars, nbvars, loadvars>>

\* the first my_qpe_flexible call has returned: main makes the second
SecondQpeCall ==
  /\ qpc = "done"
  /\ qcall < Len(qcalls)
  /\ qcall' = qcall + 1
  /\ qpc' = "apply_h"
  /\ qpe_index' = 0
  /\ UNCHANGED <<phase_len, u_inner, u_calls, pw_arg, repetitions, qcalls, qlog>>
  /\ UNCHANGED <<progvars, estvars, nbvars, loadvars>>

\* swap_test(state1=phase_exact, state2=phase_approx, test=test)
SwapTest ==
  /\ qpc = "done"
  /\ qcall = Len(qcalls)
  /\ qpc' = "swap_tested"
  /\ qlog' = Append(qlog, SwapTestStep)
  /\ UNCHANGED <<phase_len, qpe_index, u_inner, u_calls, pw_arg, repetitions, qcalls, qcall>>
  /\ UNCHANGED <<progvars, estvars, nbvars, loadvars>>

SwapTestNext ==
  \/ PrepareAmplitudes
  \/ ApplyH
  \/ TrotterUnitaryCall
  \/ NaiveUCall
  \/ InvertQft
  \/ SecondQpeCall
  \/ SwapTest

SpecSwapTest == SwapTestInit /\ [][SwapTestNext]_vars

\* the registers the operations of call c have acted on so far
RegistersOfCall(c) ==
  UNION {qlog[i].regs : i \in {j \in DOMAIN qlog : qlog[j].call = c}}

(* C22: in the swap-test model, the two my_qpe_flexible calls (approximated
   and exact Hamiltonian simulation) run in parallel: they act on disjoint
   quantum registers, so neither call's result depends on the order in which
   the two are executed. *)
C22_CallsOnDisjointRegisters ==
  RegistersOfCall(1) \cap RegistersOfCall(2) = {}

----------------------------------------------------------------------------
(* exponential_amplitude_loading (part_000 lines 81-95), statement by        *)
(* statement on a basis value of x, aux and res, as direct_load_amplitudes   *)
(* calls it (lines 98-100) on max_reg, aux_reg and ind_reg.                  *)

\* rainbow_direct(x[0:2], x[2:4], x[4:9], x[x.len - 1]): aux_reg has 5 qubits
AUX_LEN == 5

\* max_reg of the direct model holding the raw value xraw
LoadRegister(xraw) ==
  [raw |-> xraw,
   size |-> affine_max("direct", 0, 0).size,
   fraction_digits |-> affine_max("direct", 0, 0).fraction_digits]

\* x.len
XLen == LoadRegister(0).size

\* apply_to_all(X, x) left out
XNone(xraw, n) == xraw

\* apply_to_all(X, x): every one of the n bits of x is flipped
XAll(xraw, n) == Pow2(n) - 1 - xraw

\* the value a with bit i set to b
SetBit(a, i, b) == a + (b - Bit(a, i)) * Pow2(i)

\* the probability that RY(2 * acos(c)) leaves a basis state of its qubit as it
\* is: c^2 with c = 1 / sqrt(exp(exp_rate * 2^index))
RotationStays(exp_rate, index) ==
  RMul(LadderCos(exp_rate, index), LadderCos(exp_rate, index))

\* the condition tested on the qubits of aux that the ladder acts on only
LadderQubitsAreZero(a) == a % Pow2(XLen) = 0

\* control (aux_num == 0) with aux_num: qnum<aux.len, False, 0> bound to aux
AuxNumIsZero(a) == a = 0

\* the call exponential_amplitude_loading(exp_rate, max_reg, aux_reg, ind_reg)
\* inside control (geq_reg == 1)
LoadingInit ==
  /\ ProgramInit /\ model = "direct" /\ k = 0
  /\ EstimationIdle
  /\ NotebooksIdle
  /\ QpeIdle
  /\ lpc = "x_first"
  /\ lx0 \in 0 .. Pow2(XLen) - 1
  /\ lx = lx0
  /\ laux0 \in 0 .. Pow2(AUX_LEN) - 1
  /\ laux = laux0
  /\ lres0 \in 0 .. 1
  /\ lres = lres0
  /\ lidx = 0
  /\ lrot = {}
  /\ lweight = SCALE

\* apply_to_all(X, x);
XAllFirst ==
  /\ lpc = "x_first"
  /\ lx' = XAll(lx, XLen)
  /\ lpc' = "ladder"
  /\ lidx' = 0
  /\ UNCHANGED <<lx0, laux, laux0, lres, lres0, lrot, lweight>>
  /\ UNCHANGED <<progvars, estvars, nbvars, qpevars>>

\* one iteration of repeat (index: x.len): control (x[index]) { RY(..., aux[index]) };
\* the rotated qubit is found in either basis state
LadderStep ==
  /\ lpc = "ladder"
  /\ lidx < XLen
  /\ lidx' = lidx + 1
  /\ IF Bit(lx, lidx) = 1
     THEN \E b \in 0 .. 1 :
            LET stays == RotationStays(ExpRate(LoadRegister(lx0)), lidx)
            IN /\ laux' = SetBit(laux, lidx, b)
               /\ lweight' = RMul(lweight,
                                  IF b = Bit(laux, lidx) THEN stays ELSE SCALE - stays)
               /\ lrot' = lrot \cup {lidx}
     ELSE UNCHANGED <<laux, lweight, lrot>>
  /\ UNCHANGED <<lpc, lx, lx0, laux0, lres, lres0>>
  /\ UNCHANGED <<progvars, estvars, nbvars, qpevars>>

\* apply_to_all(X, x); after the repeat
XAllSecond ==
  /\ lpc = "ladder"
  /\ lidx = XLen
  /\ lx' = XAll(lx, XLen)
  /\ lpc' = "flip"
  /\ UNCHANGED <<lx0, laux, laux0, lres, lres0, lidx, lrot, lweight>>
  /\ UNCHANGED <<progvars, estvars, nbvars, qpevars>>

\* aux -> aux_num; control (aux_num == 0) { X(res); } aux_num -> aux;
ControlledX ==
  /\ lpc = "flip"
  /\ lres' = IF AuxNumIsZero(laux) THEN 1 - lres ELSE lres
  /\ lpc' = "done"
  /\ UNCHANGED <<lx, lx0, laux, laux0, lres0, lidx, lrot, lweight>>
  /\ UNCHANGED <<progvars, estvars, nbvars, qpevars>>

LoadingNext == XAllFirst \/ LadderStep \/ XAllSecond \/ ControlledX

SpecLoading == LoadingInit /\ [][LoadingNext]_vars

(* C24: for every basis value of x and every ladder outcome on aux,
   exponential_amplitude_loading leaves the value of x unchanged (the two
   apply_to_all(X, x) calls cancel), changes no qubit other than aux and res,
   and flips res exactly when all aux qubits are 0. *)
C24_OnlyAuxAndResChange ==
  /\ lpc = "done" =>
       /\ lx = lx0
       /\ (lres # lres0) <=> (\A i \in 0 .. AUX_LEN - 1 : Bit(laux, i) = 0)
  /\ lpc \in {"ladder", "flip"} => lres = lres0
  /\ lpc = "ladder" => lx = Pow2(XLen) - 1 - lx0
  /\ \A i \in XLen .. AUX_LEN - 1 : Bit(laux, i) = Bit(laux0, i)
  /\ x1 = 0 /\ x2 = 0 /\ max_out = NoReg /\ geq_reg = -1 /\ ind = 0

\* the call has returned on the branch where every aux qubit is 0: x = 0101b is
\* restored and res is flipped
C24_Witness ==
  /\ lpc = "done"
  /\ lx0 = 5 /\ lx = 5
  /\ laux0 = 0 /\ laux = 0
  /\ lres0 = 0 /\ lres = 1

\* exp(-exp_rate * (2^n - 1 - x)) for the n-bit value x of max_reg
FlipProbability(xraw) ==
  RDiv(SCALE, RExp(ExpRate(LoadRegister(xraw)) * (Pow2(XLen) - 1 - xraw)))

(* C25: in exponential_amplitude_loading with aux initially all zero,
   aux[index] is rotated exactly for those indices where bit index of the
   original x is 0, so res is flipped with probability
   exp(-exp_rate * (2^n - 1 - x)) for an n-bit x: this probability is
   strictly increasing in x and equals 1 when x is all ones (no rotation is
   applied). *)
C25_FlipProbability ==
  (lpc = "done" /\ laux0 = 0) =>
    /\ lrot = {i \in 0 .. XLen - 1 : Bit(lx0, i) = 0}
    /\ (lres # lres0) =>
         /\ Near(lweight, FlipProbability(lx0))
         /\ \A y \in 0 .. lx0 - 1 : FlipProbability(y) < FlipProbability(lx0)
         /\ lx0 = Pow2(XLen) - 1 => (lweight = SCALE /\ lrot = {})

\* res has been flipped for x = 1100b: aux[0] and aux[1] were rotated and found 0
C25_Witness ==
  /\ lpc = "done"
  /\ laux0 = 0
  /\ lx0 = 12
  /\ lrot = {0, 1}
  /\ lres # lres0
  /\ lweight < SCALE

====
